---------------------------- MODULE Spec2Model ----------------------------
(***************************************************************************)
(* Gesture-to-command control pipeline of the F450 ground station.         *)
(*                                                                         *)
(*   App (src/unnamed/part_001)      connection, arm state, calibration    *)
(*                                   state machine, keyboard handler       *)
(*   VideoHUD (src/unnamed/part_002) per-frame pipeline onResults:         *)
(*                                   classification, normalisation, EMA,   *)
(*                                   deadzone, RC mapping, failsafe        *)
(*                                                                         *)
(* Numbers.  Hand spans are counted in tenths of the normalised image      *)
(* size (0.1 is 1, 0.3 is 3).  Intensities are exact rationals <<n, d>>    *)
(* in lowest terms with d > 0; <<0, 0>> stands for NaN.  The clock is in   *)
(* milliseconds.                                                           *)
(*                                                                         *)
(* Scheduling.  Every operation is one browser task.  A state update made  *)
(* by a key or click handler is rendered, and the effects of that render   *)
(* (re-registration of the keydown handler, the connection watchdog) are   *)
(* run, before the next task starts; Commit models that trailing step.     *)
(***************************************************************************)
EXTENDS Integers, Sequences, FiniteSets, TLC

(***************************************************************************)
(* Bounds of the model.                                                    *)
(***************************************************************************)
MaxSpan == 3
\* largest hand span a frame can report, in tenths
MaxTime == 1250
\* frames are processed while the clock is at most MaxTime ms
MaxTimers == 1
\* connect timeouts that can be pending at once
MaxSystemTime == 250
\* SystemSpec, which adds the connection and arm operations, processes frames
\* while the clock is at most MaxSystemTime ms
MaxEma == 3
\* the smoothed intensity is followed exactly through MaxEma filter steps

Spans == 0..MaxSpan
Dts == {250, 500}
\* elapsed time between two processed frames, in ms

(***************************************************************************)
(* Program constants.                                                      *)
(***************************************************************************)
RC_MIN == 1000
RC_MID == 1500
RC_MAX == 2000
HOLD_WINDOW_MS == 500
PITCH_AMP == 450
THROTTLE_AMP == 800

EMA_ALPHA == <<1, 5>>
\* 0.2
DEADZONE == <<1, 20>>
\* 0.05

ConnectionState == {"DISCONNECTED", "CONNECTING", "CONNECTED"}
GestureType == {"NONE", "HOVER", "FORWARD", "BACKWARD", "UP"}

(***************************************************************************)
(* Exact rational arithmetic standing for the JavaScript numbers.          *)
(***************************************************************************)
Abs(x) == IF x < 0 THEN -x ELSE x

RECURSIVE GCD(_, _)
GCD(a, b) == IF b = 0 THEN a ELSE GCD(b, a % b)

NaN == <<0, 0>>
IsNaN(r) == r[2] = 0

Rat(n, d) ==
    IF d = 0 THEN NaN
    ELSE LET g == GCD(Abs(n), Abs(d))
             s == IF d < 0 THEN -1 ELSE 1
         IN  <<(s * n) \div g, (s * d) \div g>>

RAdd(a, b) == IF IsNaN(a) \/ IsNaN(b) THEN NaN
              ELSE Rat(a[1] * b[2] + b[1] * a[2], a[2] * b[2])
RSub(a, b) == IF IsNaN(a) \/ IsNaN(b) THEN NaN
              ELSE Rat(a[1] * b[2] - b[1] * a[2], a[2] * b[2])
RMul(a, b) == IF IsNaN(a) \/ IsNaN(b) THEN NaN
              ELSE Rat(a[1] * b[1], a[2] * b[2])
\* every comparison with NaN is false
RGt(a, b) == ~IsNaN(a) /\ ~IsNaN(b) /\ a[1] * b[2] > b[1] * a[2]
\* Math.max and Math.min return NaN when an argument is NaN
RMax(a, b) == IF IsNaN(a) \/ IsNaN(b) THEN NaN ELSE IF RGt(b, a) THEN b ELSE a
RMin(a, b) == IF IsNaN(a) \/ IsNaN(b) THEN NaN ELSE IF RGt(a, b) THEN b ELSE a
\* Math.floor(r * k) for a number r >= 0
FloorTimes(r, k) == (r[1] * k) \div r[2]

ZERO == <<0, 1>>
ONE == <<1, 1>>

(***************************************************************************)
(* utils/math                                                              *)
(***************************************************************************)
calculateEMA(current, previous, alpha) ==
    RAdd(RMul(alpha, current), RMul(RSub(ONE, alpha), previous))

clamp(val, min, max) == RMin(RMax(val, min), max)

RECURSIVE Factorial(_)
Factorial(n) == IF n <= 1 THEN 1 ELSE n * Factorial(n - 1)

\* The intensities the model can hold: NaN and the rationals a normalised
\* span (a quotient of span differences) reaches in MaxEma filter steps.
Representable(r) == IsNaN(r) \/ (Factorial(MaxSpan) * 5 ^ MaxEma) % r[2] = 0

(***************************************************************************)
(* State.                                                                  *)
(***************************************************************************)
VARIABLES
    connection,         \* App: connection
    armState,           \* App: telemetry.armState
    connTimers,         \* App: pending 1500 ms connect timeouts
    calibration,        \* App: calibration {stage, minScale, maxScale}
    handler,            \* App: values captured by the registered handleKeyDown
    lastSampleRef,      \* App: lastSampleRef.current
    smoothedIntensity,  \* VideoHUD: logicState.current.smoothedIntensity
    lastHandTime,       \* VideoHUD: lastHandTime.current
    lastValidRC,        \* VideoHUD: lastValidRC.current
    now,                \* Date.now()
    frame,              \* what the last onResults call saw and handed up
    logged,             \* entries the last operation appended to logs
    lastOp,             \* the last operation that ran
    seenSpan            \* span of the most recent hand-present frame (-1: none)

vars == <<connection, armState, connTimers, calibration, handler, lastSampleRef,
          smoothedIntensity, lastHandTime, lastValidRC, now, frame,
          logged, lastOp, seenSpan>>

hudVars == <<smoothedIntensity, lastHandTime, lastValidRC, now, frame, seenSpan>>

NeutralRC == [ch1 |-> RC_MID, ch2 |-> RC_MID, ch3 |-> RC_MIN, ch4 |-> RC_MID]

NoFrame == [hasHand |-> FALSE, gesture |-> "NONE", intensity |-> ZERO,
            rcCmd |-> NeutralRC, timeSinceHand |-> 0]

Init ==
    /\ connection = "DISCONNECTED"
    /\ armState = FALSE
    /\ connTimers = 0
    /\ calibration = [stage |-> 0, minScale |-> 1, maxScale |-> 3]
    /\ handler = [stage |-> 0, armState |-> FALSE]
    /\ lastSampleRef = 0
    /\ smoothedIntensity = ZERO
    /\ lastHandTime = 0
    /\ lastValidRC = NeutralRC
    /\ now = 0
    /\ frame = NoFrame
    /\ logged = <<>>
    /\ lastOp = "mount"
    /\ seenSpan = -1

(***************************************************************************)
(* VideoHUD.onResults: the per-frame pipeline.                             *)
(***************************************************************************)
FingerPatterns == [1..4 -> {0, 1}]
\* index, middle, ring, pinky: 1 when the tip is above its pip joint

sumFingers(fingers) == fingers[1] + fingers[2] + fingers[3] + fingers[4]

ClassifyAnySingle(fingers) ==
    IF sumFingers(fingers) = 4 THEN "FORWARD"
    ELSE IF sumFingers(fingers) = 0 THEN "BACKWARD"
    ELSE IF sumFingers(fingers) = 1 THEN "UP"
    ELSE "HOVER"

Classify(fingers) ==
    IF sumFingers(fingers) = 4 THEN "FORWARD"
    ELSE IF sumFingers(fingers) = 0 THEN "BACKWARD"
    ELSE IF fingers[1] = 1 /\ sumFingers(fingers) = 1 THEN "UP"
    ELSE "HOVER"

NormalizeUnclamped(rawScale, cal) ==
    LET a == rawScale - cal.minScale
        b == cal.maxScale - cal.minScale
    IN  IF b = 0
        THEN IF a = 0 THEN NaN ELSE IF a > 0 THEN ONE ELSE ZERO
        ELSE Rat(a, b)

\* clamp((rawScale - minScale) / (maxScale - minScale), 0, 1); a zero divisor
\* gives NaN (0/0) or an infinity, which clamp maps to 1 or 0.
Normalize(rawScale, cal) ==
    LET a == rawScale - cal.minScale
        b == cal.maxScale - cal.minScale
    IN  IF b = 0
        THEN IF a = 0 THEN NaN ELSE IF a > 0 THEN ONE ELSE ZERO
        ELSE clamp(Rat(a, b), ZERO, ONE)

DeadzoneRescaled(smoothed) ==
    IF RGt(smoothed, DEADZONE)
    THEN RMul(RSub(smoothed, DEADZONE), <<20, 19>>)
    ELSE ZERO

Deadzone(smoothed) == IF RGt(smoothed, DEADZONE) THEN smoothed ELSE ZERO

MapRCFromMin(gesture, currentIntensity) ==
    LET amp == FloorTimes(currentIntensity, PITCH_AMP)
    IN  IF gesture = "FORWARD" THEN [NeutralRC EXCEPT !.ch2 = RC_MIN - amp]
        ELSE IF gesture = "BACKWARD" THEN [NeutralRC EXCEPT !.ch2 = RC_MID + amp]
        ELSE IF gesture = "UP"
             THEN [NeutralRC EXCEPT
                      !.ch3 = RC_MIN + FloorTimes(currentIntensity, THROTTLE_AMP)]
        ELSE NeutralRC

MapRCSwapped(gesture, currentIntensity) ==
    LET amp == FloorTimes(currentIntensity, PITCH_AMP)
    IN  IF gesture = "FORWARD" THEN [NeutralRC EXCEPT !.ch2 = RC_MID + amp]
        ELSE IF gesture = "BACKWARD" THEN [NeutralRC EXCEPT !.ch2 = RC_MID - amp]
        ELSE IF gesture = "UP"
             THEN [NeutralRC EXCEPT
                      !.ch3 = RC_MIN + FloorTimes(currentIntensity, THROTTLE_AMP)]
        ELSE NeutralRC

MapRCWithThrottle(gesture, currentIntensity) ==
    LET amp == FloorTimes(currentIntensity, PITCH_AMP)
        lift == RC_MIN + FloorTimes(currentIntensity, THROTTLE_AMP)
    IN  IF gesture = "FORWARD"
        THEN [NeutralRC EXCEPT !.ch2 = RC_MID - amp, !.ch3 = lift]
        ELSE IF gesture = "BACKWARD" THEN [NeutralRC EXCEPT !.ch2 = RC_MID + amp]
        ELSE IF gesture = "UP" THEN [NeutralRC EXCEPT !.ch3 = lift]
        ELSE NeutralRC

MapRC(gesture, currentIntensity) ==
    LET amp == FloorTimes(currentIntensity, PITCH_AMP)
    IN  IF gesture = "FORWARD" THEN [NeutralRC EXCEPT !.ch2 = RC_MID - amp]
        ELSE IF gesture = "BACKWARD" THEN [NeutralRC EXCEPT !.ch2 = RC_MID + amp]
        ELSE IF gesture = "UP"
             THEN [NeutralRC EXCEPT
                      !.ch3 = RC_MIN + FloorTimes(currentIntensity, THROTTLE_AMP)]
        ELSE NeutralRC

FailsafeOnlyAtWindow(timeSinceHand, held) ==
    IF timeSinceHand = HOLD_WINDOW_MS THEN NeutralRC ELSE held

FailsafeNoHold(timeSinceHand, held) == NeutralRC

FailsafeInclusive(timeSinceHand, held) ==
    IF timeSinceHand <= HOLD_WINDOW_MS THEN held ELSE NeutralRC

\* The command of a frame without a hand: hold, then neutral.
Failsafe(timeSinceHand, held) ==
    IF timeSinceHand < HOLD_WINDOW_MS THEN held ELSE NeutralRC

CalibrationHookAnyStage(hasHand, stage, rawScale, sample) ==
    IF hasHand THEN rawScale ELSE sample

\* The calibration hook: onCalibrationStep(rawScale) stores the span in
\* lastSampleRef, on frames with a hand while the stage is 1 or 2.
CalibrationHook(hasHand, stage, rawScale, sample) ==
    IF hasHand /\ stage \in {1, 2} THEN rawScale ELSE sample

ActiveAnyStage(hasHand, stage) == hasHand

\* The gate of the control branch: a hand is present and the stage is 3.
Active(hasHand, stage) == hasHand /\ stage = 3

SmoothDecays(active, rawScale, cal, previous) ==
    IF active
    THEN calculateEMA(Normalize(rawScale, cal), previous, EMA_ALPHA)
    ELSE calculateEMA(ZERO, previous, EMA_ALPHA)

\* The intensity filter: one EMA step towards the normalised span on a frame
\* with a hand while the stage is 3; no write otherwise.
Smooth(active, rawScale, cal, previous) ==
    IF active
    THEN calculateEMA(Normalize(rawScale, cal), previous, EMA_ALPHA)
    ELSE previous

ValidRCNeutralUnlessReady(active, gesture, currentIntensity, held) ==
    IF active THEN MapRC(gesture, currentIntensity) ELSE NeutralRC

ValidRCEveryFrame(active, gesture, currentIntensity, held) ==
    MapRC(gesture, currentIntensity)

\* lastValidRC.current after the frame: the fresh command on a frame with a
\* hand while the stage is 3; no write otherwise.
ValidRC(active, gesture, currentIntensity, held) ==
    IF active THEN MapRC(gesture, currentIntensity) ELSE held

\* One call of onResults: hasHand says whether a hand was detected, rawScale
\* and fingers are what the geometry step computes from its landmarks, dt is
\* the time since the previous call.
OnResults(hasHand, rawScale, fingers, dt) ==
    LET t == now + dt
        lht == IF hasHand THEN t ELSE lastHandTime
        gesture == IF hasHand THEN Classify(fingers) ELSE "NONE"
        active == Active(hasHand, calibration.stage)
        smoothed == Smooth(active, rawScale, calibration, smoothedIntensity)
        currentIntensity == IF active THEN Deadzone(smoothed) ELSE ZERO
        valid == ValidRC(active, gesture, currentIntensity, lastValidRC)
        timeSinceHand == t - lht
        rcCmd == IF hasHand THEN valid ELSE Failsafe(timeSinceHand, valid)
    IN  /\ t <= MaxTime
        /\ Representable(smoothed)
        /\ now' = t
        /\ lastHandTime' = lht
        /\ smoothedIntensity' = smoothed
        /\ lastValidRC' = valid
        /\ frame' = [hasHand |-> hasHand,
                     gesture |-> gesture, intensity |-> currentIntensity,
                     rcCmd |-> rcCmd, timeSinceHand |-> timeSinceHand]
        /\ lastSampleRef' = CalibrationHook(hasHand, calibration.stage, rawScale,
                                            lastSampleRef)
        /\ seenSpan' = IF hasHand THEN rawScale ELSE seenSpan
        /\ logged' = <<>>
        /\ lastOp' = "frame"
        /\ UNCHANGED <<connection, armState, connTimers, calibration, handler>>

HandFrame ==
    \E rawScale \in Spans, fingers \in FingerPatterns, dt \in Dts :
        OnResults(TRUE, rawScale, fingers, dt)

NoHandFrame ==
    \E dt \in Dts : OnResults(FALSE, 0, <<0, 0, 0, 0>>, dt)

\* onResults on a hand whose landmark list is shorter than 21 points: the
\* length test on multiHandLandmarks passes and lastHandTime is written, then
\* reading a coordinate of a missing landmark throws and the call ends there.
MalformedFrame ==
    \E dt \in Dts :
        /\ now + dt <= MaxTime
        /\ now' = now + dt
        /\ lastHandTime' = now + dt
        /\ logged' = <<>>
        /\ lastOp' = "malformedFrame"
        /\ UNCHANGED <<connection, armState, connTimers, calibration, handler,
                       lastSampleRef, smoothedIntensity, lastValidRC, frame,
                       seenSpan>>

(***************************************************************************)
(* App: render and effects after a state update.                           *)
(***************************************************************************)
\* The watchdog effect: armed while DISCONNECTED forces a disarm.
Watchdog(conn, arm) == IF conn = "DISCONNECTED" /\ arm THEN FALSE ELSE arm

WatchdogLog(conn, arm) ==
    IF conn = "DISCONNECTED" /\ arm THEN <<"ERROR:failsafe">> ELSE <<>>

\* The keydown effect registers a handler that captures the rendered stage
\* and arm state.
Commit(conn, arm, cal, entries) ==
    /\ connection' = conn
    /\ armState' = Watchdog(conn, arm)
    /\ calibration' = cal
    /\ handler' = [stage |-> cal.stage, armState |-> Watchdog(conn, arm)]
    /\ logged' = entries \o WatchdogLog(conn, arm)

(***************************************************************************)
(* App.handleKeyDown                                                       *)
(***************************************************************************)
BeginCalibrationReset(prev) == [stage |-> 1, minScale |-> 0, maxScale |-> 0]

BeginCalibration(prev) == [prev EXCEPT !.stage = 1]

SampleFarValidated(prev, val) ==
    IF val >= prev.maxScale THEN prev
    ELSE [prev EXCEPT !.minScale = val, !.stage = 2]

SampleFar(prev, val) == [prev EXCEPT !.minScale = val, !.stage = 2]

SampleNearNonStrict(prev, val) ==
    IF val < prev.minScale THEN prev
    ELSE [prev EXCEPT !.maxScale = val, !.stage = 3]

SampleNearKeepsValue(prev, val) ==
    IF val <= prev.minScale THEN [prev EXCEPT !.maxScale = val]
    ELSE [prev EXCEPT !.maxScale = val, !.stage = 3]

SampleNearAgainstMax(prev, val) ==
    IF val <= prev.maxScale THEN prev
    ELSE [prev EXCEPT !.maxScale = val, !.stage = 3]

SampleNear(prev, val) ==
    IF val <= prev.minScale THEN prev
    ELSE [prev EXCEPT !.maxScale = val, !.stage = 3]

SampleNearLog(prev, val) ==
    IF val <= prev.minScale THEN <<"ERROR:calInvalid">> ELSE <<"INFO:sampleNear">>

SampleFromIdle(stage, prev, val) ==
    IF stage <= 1 THEN SampleFar(prev, val)
    ELSE IF stage = 2 THEN SampleNear(prev, val)
    ELSE prev

\* The KeyS branch: stage is the stage the handler captured, prev the current
\* calibration the updater receives, val the value of lastSampleRef.
Sample(stage, prev, val) ==
    IF stage = 1 THEN SampleFar(prev, val)
    ELSE IF stage = 2 THEN SampleNear(prev, val)
    ELSE prev

SampleLog(stage, prev, val) ==
    IF stage = 1 THEN <<"INFO:sampleFar">>
    ELSE IF stage = 2 THEN SampleNearLog(prev, val)
    ELSE <<>>

KeyCResetsPipeline ==
    /\ Commit(connection, armState, BeginCalibration(calibration),
              <<"INFO:calStart">>)
    /\ lastOp' = "KeyC"
    /\ smoothedIntensity' = ZERO
    /\ lastValidRC' = NeutralRC
    /\ UNCHANGED <<connTimers, lastSampleRef, lastHandTime, now, frame, seenSpan>>

\* KeyC
KeyC ==
    /\ Commit(connection, armState, BeginCalibration(calibration),
              <<"INFO:calStart">>)
    /\ lastOp' = "KeyC"
    /\ UNCHANGED <<connTimers, lastSampleRef>>
    /\ UNCHANGED hudVars

\* KeyS
KeyS ==
    /\ Commit(connection, armState,
              Sample(handler.stage, calibration, lastSampleRef),
              SampleLog(handler.stage, calibration, lastSampleRef))
    /\ lastOp' = "KeyS"
    /\ UNCHANGED <<connTimers, lastSampleRef>>
    /\ UNCHANGED hudVars

(***************************************************************************)
(* The key handler when the keydown effect has not yet run again: a key    *)
(* event is served by the handler registered at an earlier render, and the *)
(* effect re-registers a handler with the rendered values afterwards.      *)
(***************************************************************************)
\* KeyC served by whichever handler is registered: the updater does not look
\* at the captured stage
KeyCEvent ==
    /\ calibration' = BeginCalibration(calibration)
    /\ logged' = <<"INFO:calStart">>
    /\ lastOp' = "KeyC"
    /\ UNCHANGED <<connection, armState, connTimers, handler, lastSampleRef>>
    /\ UNCHANGED hudVars

\* KeyS served by whichever handler is registered: the branch is chosen by
\* the captured stage, the updater is applied to the current calibration
KeySEvent ==
    /\ calibration' = Sample(handler.stage, calibration, lastSampleRef)
    /\ logged' = SampleLog(handler.stage, calibration, lastSampleRef)
    /\ lastOp' = "KeyS"
    /\ UNCHANGED <<connection, armState, connTimers, handler, lastSampleRef>>
    /\ UNCHANGED hudVars

\* the keydown effect runs again after a render that changed one of its
\* dependencies telemetry.armState and calibration.stage
Reregister ==
    /\ handler # [stage |-> calibration.stage, armState |-> armState]
    /\ handler' = [stage |-> calibration.stage, armState |-> armState]
    /\ logged' = <<>>
    /\ lastOp' = "effect"
    /\ UNCHANGED <<connection, armState, connTimers, calibration, lastSampleRef>>
    /\ UNCHANGED hudVars

\* Space: emergency stop
KeySpaceLogsOnly ==
    /\ Commit(connection, armState, calibration,
              IF handler.armState THEN <<"ERROR:emergencyStop">> ELSE <<>>)
    /\ lastOp' = "Space"
    /\ UNCHANGED <<connTimers, lastSampleRef>>
    /\ UNCHANGED hudVars

KeySpace ==
    /\ Commit(connection, IF handler.armState THEN FALSE ELSE armState,
              calibration,
              IF handler.armState THEN <<"ERROR:emergencyStop">> ELSE <<>>)
    /\ lastOp' = "Space"
    /\ UNCHANGED <<connTimers, lastSampleRef>>
    /\ UNCHANGED hudVars

(***************************************************************************)
(* App: connection and arm buttons.                                        *)
(***************************************************************************)
\* toggleConnection while DISCONNECTED: start connecting, arm the 1500 ms timer
Connect ==
    /\ connection = "DISCONNECTED"
    /\ connTimers < MaxTimers
    /\ connTimers' = connTimers + 1
    /\ Commit("CONNECTING", armState, calibration, <<"INFO:connecting">>)
    /\ lastOp' = "connect"
    /\ UNCHANGED lastSampleRef
    /\ UNCHANGED hudVars

DisconnectResetsCalibration ==
    /\ connection # "DISCONNECTED"
    /\ Commit("DISCONNECTED", FALSE, [calibration EXCEPT !.stage = 0],
              <<"WARN:userDisconnect">>)
    /\ lastOp' = "disconnect"
    /\ UNCHANGED <<connTimers, lastSampleRef>>
    /\ UNCHANGED hudVars

\* toggleConnection otherwise: disconnect and reset the telemetry
Disconnect ==
    /\ connection # "DISCONNECTED"
    /\ Commit("DISCONNECTED", FALSE, calibration, <<"WARN:userDisconnect">>)
    /\ lastOp' = "disconnect"
    /\ UNCHANGED <<connTimers, lastSampleRef>>
    /\ UNCHANGED hudVars

\* The 1500 ms timer of an earlier connect request fires.
ConnectTimer ==
    /\ connTimers > 0
    /\ connTimers' = connTimers - 1
    /\ Commit("CONNECTED", armState, calibration, <<"INFO:heartbeat">>)
    /\ lastOp' = "connectTimer"
    /\ UNCHANGED lastSampleRef
    /\ UNCHANGED hudVars

ToggleArmAnyConnection ==
    /\ Commit(connection, ~armState, calibration,
              IF ~armState THEN <<"WARN:arm">> ELSE <<"INFO:disarm">>)
    /\ lastOp' = "toggleArm"
    /\ UNCHANGED <<connTimers, lastSampleRef>>
    /\ UNCHANGED hudVars

\* toggleArm: ignored unless CONNECTED
ToggleArm ==
    /\ Commit(connection,
              IF connection = "CONNECTED" THEN ~armState ELSE armState,
              calibration,
              IF connection # "CONNECTED" THEN <<>>
              ELSE IF ~armState THEN <<"WARN:arm">> ELSE <<"INFO:disarm">>)
    /\ lastOp' = "toggleArm"
    /\ UNCHANGED <<connTimers, lastSampleRef>>
    /\ UNCHANGED hudVars

(***************************************************************************)
(* Spec: the control pipeline, driven by frames and the calibration keys,  *)
(* the key handler re-registered with every render.                        *)
(* SystemSpec: the whole application, with the connection, arm and         *)
(* emergency-stop operations, over a short run of frames.                  *)
(***************************************************************************)
Next ==
    \/ HandFrame
    \/ NoHandFrame
    \/ KeyC
    \/ KeyS

Spec == Init /\ [][Next]_vars

SystemNext ==
    \/ HandFrame /\ now' <= MaxSystemTime
    \/ NoHandFrame /\ now' <= MaxSystemTime
    \/ MalformedFrame /\ now' <= MaxSystemTime
    \/ KeyC
    \/ KeyS
    \/ KeySpace
    \/ Connect
    \/ Disconnect
    \/ ConnectTimer
    \/ ToggleArm

SystemSpec == Init /\ [][SystemNext]_vars

\* RaceSpec: frames and the calibration keys, with the re-registration of the
\* key handler as a step of its own.
RaceNext ==
    \/ HandFrame /\ now' <= MaxSystemTime
    \/ NoHandFrame /\ now' <= MaxSystemTime
    \/ KeyCEvent
    \/ KeySEvent
    \/ Reregister

RaceSpec == Init /\ [][RaceNext]_vars

(***************************************************************************)
(* Calibration state machine.                                              *)
(***************************************************************************)
\* C1: in every reachable state whose stage is Ready, maxScale (near_span) is
\* strictly greater than minScale (far_span), so the divisor of the normaliser
\* is positive on every frame that normalises.
C1_ReadySpansOrdered ==
    calibration.stage = 3 => calibration.maxScale - calibration.minScale > 0

\* A frame has normalised against a calibration that replaced the initial one.
C1_Witness ==
    /\ lastOp = "frame" /\ frame.hasHand
    /\ calibration.stage = 3
    /\ calibration.minScale = 2 /\ calibration.maxScale = 3

\* C2: a sample in WaitNear whose span is at most far_span is rejected: stage,
\* far_span and near_span keep their values and an ERROR entry is logged.
C2_NearSampleRejected ==
    [][(lastOp' = "KeyS" /\ calibration.stage = 2
            /\ lastSampleRef <= calibration.minScale)
        => (/\ calibration' = calibration
            /\ calibration'.stage = 2
            /\ logged' = <<"ERROR:calInvalid">>)]_vars

\* A sample equal to far_span has just been rejected.
C2_Witness ==
    /\ lastOp = "KeyS" /\ logged = <<"ERROR:calInvalid">>
    /\ calibration.stage = 2
    /\ lastSampleRef = calibration.minScale /\ lastSampleRef > 0

\* C3: a sample in WaitNear whose span is strictly greater than far_span moves
\* the stage to Ready, sets near_span to the sampled span and keeps far_span.
C3_NearSampleAccepted ==
    [][(lastOp' = "KeyS" /\ calibration.stage = 2
            /\ lastSampleRef > calibration.minScale)
        => (/\ calibration'.stage = 3
            /\ calibration'.maxScale = lastSampleRef
            /\ calibration'.minScale = calibration.minScale)]_vars

\* A near sample below the previously stored near_span has been accepted.
C3_Witness ==
    /\ lastOp = "KeyS" /\ logged = <<"INFO:sampleNear">>
    /\ calibration.stage = 3
    /\ calibration.minScale = 1 /\ calibration.maxScale = 2

\* C4: a sample in WaitFar always succeeds, whatever the span: far_span becomes
\* the sampled span, the stage becomes WaitNear, near_span keeps its value.
C4_FarSampleAlwaysTaken ==
    [][(lastOp' = "KeyS" /\ calibration.stage = 1)
        => (/\ calibration'.stage = 2
            /\ calibration'.minScale = lastSampleRef
            /\ calibration'.maxScale = calibration.maxScale)]_vars

\* A far sample as large as the stored near_span has been taken.
C4_Witness ==
    /\ lastOp = "KeyS" /\ logged = <<"INFO:sampleFar">>
    /\ calibration.stage = 2
    /\ calibration.minScale >= calibration.maxScale

\* C5: a sample while the stage is Idle or Ready changes neither stage nor
\* far_span nor near_span.
C5_SampleIgnoredIdleReady ==
    [][(lastOp' = "KeyS" /\ calibration.stage \in {0, 3})
        => calibration' = calibration]_vars

\* A sample has been ignored in Ready.
C5_Witness ==
    /\ lastOp = "KeyS" /\ logged = <<>>
    /\ calibration.stage = 3

\* C6 as claimed: begin_calibration, from any stage, moves the stage to WaitFar
\* and clears both stored spans (they are zero or back at their initial
\* values, and hold nothing of a previous calibration).
C6_BeginClearsSpans ==
    [][lastOp' = "KeyC"
        => (/\ calibration'.stage = 1
            /\ \/ calibration'.minScale = 0 /\ calibration'.maxScale = 0
               \/ calibration'.minScale = 1 /\ calibration'.maxScale = 3)]_vars

\* C6 as amended: begin_calibration, from any stage, moves the stage to WaitFar
\* and leaves far_span and near_span as they were.
C6_BeginKeepsSpans ==
    [][lastOp' = "KeyC"
        => calibration' = [calibration EXCEPT !.stage = 1]]_vars

\* begin_calibration has run with the spans of a completed calibration
\* (near_span 2 is only ever set by an accepted near sample) still stored.
C6_Witness ==
    /\ lastOp = "KeyC"
    /\ calibration = [stage |-> 1, minScale |-> 1, maxScale |-> 2]

\* C7 as claimed: whenever the connection goes to DISCONNECTED, the calibration
\* stage is reset to Idle.
C7_DisconnectResetsToIdle ==
    [][(connection # "DISCONNECTED" /\ connection' = "DISCONNECTED")
        => calibration'.stage = 0]_vars

\* C7 as amended: whenever the connection goes to DISCONNECTED, stage, far_span
\* and near_span keep their values.
C7_DisconnectKeepsCalibration ==
    [][(connection # "DISCONNECTED" /\ connection' = "DISCONNECTED")
        => calibration' = calibration]_vars

\* A disconnect has happened in Ready, and the stage is still Ready.
C7_Witness ==
    /\ lastOp = "disconnect" /\ connection = "DISCONNECTED"
    /\ calibration.stage = 3

\* C8 as claimed: the span a sample event reads and records is the span of the
\* most recent hand-present frame processed before it, whatever the stage was
\* when that frame was processed.
C8_SampleIsLatestHandSpan ==
    [][(lastOp' = "KeyS" /\ calibration.stage \in {1, 2} /\ seenSpan # -1)
        => (/\ lastSampleRef = seenSpan
            /\ calibration'.stage = 2 /\ calibration.stage = 1
                    => calibration'.minScale = seenSpan
            /\ calibration'.stage = 3
                    => calibration'.maxScale = seenSpan)]_vars

\* C8 as amended: only a hand-present frame processed in WaitFar or WaitNear
\* is remembered; every other frame and every key event leaves the remembered
\* span as it was (initially 0), and that remembered span is what a sample
\* records.
C8_SampleIsLatestCalibrationSpan ==
    [][/\ (lastOp' = "frame" /\ frame'.hasHand /\ calibration.stage \in {1, 2})
            => lastSampleRef' = seenSpan'
       /\ (lastOp' = "frame" /\ ~(frame'.hasHand /\ calibration.stage \in {1, 2}))
            => lastSampleRef' = lastSampleRef
       /\ lastOp' \in {"KeyC", "KeyS"} => lastSampleRef' = lastSampleRef
       /\ (lastOp' = "KeyS" /\ calibration.stage = 1)
            => calibration'.minScale = lastSampleRef
       /\ (lastOp' = "KeyS" /\ calibration.stage = 2 /\ calibration'.stage = 3)
            => calibration'.maxScale = lastSampleRef]_vars

\* A far sample has recorded the near_span of the previous round although a
\* later hand-present frame, processed in Ready, showed another span.
C8_Witness ==
    /\ lastOp = "KeyS" /\ logged = <<"INFO:sampleFar">>
    /\ calibration.minScale = calibration.maxScale
    /\ seenSpan # -1 /\ seenSpan # calibration.minScale

(***************************************************************************)
(* Link-loss failsafe.                                                     *)
(***************************************************************************)
\* C9: on a frame without a hand, less than 500 ms after the last frame with
\* a hand, the emitted command is last_command (all four channels) and
\* last_command keeps its value.
C9_HoldWithinWindow ==
    [][(lastOp' = "frame" /\ ~frame'.hasHand
            /\ now' - lastHandTime < 500)
        => (/\ frame'.rcCmd = lastValidRC
            /\ lastValidRC' = lastValidRC)]_vars

\* A frame without a hand has held a command other than the neutral one.
C9_Witness ==
    /\ lastOp = "frame" /\ ~frame.hasHand
    /\ now - lastHandTime < 500
    /\ frame.rcCmd = lastValidRC /\ frame.rcCmd # NeutralRC

\* C10: on a frame without a hand, 500 ms or more after the last frame with a
\* hand, the emitted command is {1500, 1500, 1000, 1500} and last_command
\* keeps its value.
C10_NeutralAfterWindow ==
    [][(lastOp' = "frame" /\ ~frame'.hasHand
            /\ now' - lastHandTime >= 500)
        => (/\ frame'.rcCmd = [ch1 |-> 1500, ch2 |-> 1500, ch3 |-> 1000,
                               ch4 |-> 1500]
            /\ lastValidRC' = lastValidRC)]_vars

\* Exactly 500 ms after the last hand, a frame has emitted the neutral command
\* while last_command is another one.
C10_Witness ==
    /\ lastOp = "frame" /\ ~frame.hasHand
    /\ now - lastHandTime = 500
    /\ frame.rcCmd = NeutralRC /\ lastValidRC # NeutralRC

(***************************************************************************)
(* Command range.                                                          *)
(***************************************************************************)
Channels == {"ch1", "ch2", "ch3", "ch4"}

InRange(cmd) == \A c \in Channels : cmd[c] >= RC_MIN /\ cmd[c] <= RC_MAX

\* intensities k/10 for k = 0..10
IntensityGrid == {Rat(k, 10) : k \in 0..10}

\* C11: every command a frame emits (freshly computed, held, or neutral) and
\* the stored last command have all four channels within 1000..2000, and the
\* gesture mapping stays in that range for every intensity from 0 to 1.
C11_CommandsInRange ==
    /\ InRange(frame.rcCmd)
    /\ InRange(lastValidRC)
    /\ \A g \in GestureType, i \in IntensityGrid : InRange(MapRC(g, i))

\* a Ready frame with a hand whose fresh command leaves the neutral pitch
C11_Witness ==
    /\ lastOp = "frame" /\ frame.hasHand /\ calibration.stage = 3
    /\ frame.gesture = "FORWARD" /\ frame.rcCmd.ch2 < RC_MID

(***************************************************************************)
(* Gesture classification.                                                 *)
(***************************************************************************)
\* the classification table over index, middle, ring, pinky
GestureTable(fingers) ==
    CASE fingers = <<1, 1, 1, 1>> -> "FORWARD"
      [] fingers = <<0, 0, 0, 0>> -> "BACKWARD"
      [] fingers = <<1, 0, 0, 0>> -> "UP"
      [] OTHER -> "HOVER"

\* a step that is a frame gives the gesture of the table: no finger pattern
\* whose table entry differs from the gesture of the frame produces the step
GestureStep ==
    /\ (lastOp' = "frame" /\ frame'.hasHand) =>
          (\A fingers \in FingerPatterns :
              frame'.gesture # GestureTable(fingers)
                  => ~OnResults(TRUE, seenSpan', fingers, now' - now))
    /\ (lastOp' = "frame" /\ ~frame'.hasHand) => (frame'.gesture = "NONE")

\* C12: a frame with a hand is classified over the 16 finger patterns as
\* Forward when all four fingers are extended, Backward when none is, Up when
\* only the index is, and Hover for each of the other 13 patterns; a frame
\* without a hand has gesture None.
C12_GestureTable ==
    /\ Cardinality({f \in FingerPatterns : Classify(f) = "HOVER"}) = 13
    /\ [][GestureStep]_vars

\* a frame classified Up, which only the index-alone pattern produces
C12_Witness ==
    /\ lastOp = "frame" /\ frame.hasHand /\ frame.gesture = "UP"

(***************************************************************************)
(* Fresh command of a Ready frame.                                         *)
(***************************************************************************)
\* floor(i * k) for a rational i >= 0
FloorOf(i, k) == CHOOSE n \in 0..k : n * i[2] <= i[1] * k /\ i[1] * k < (n + 1) * i[2]

FreshCommand(gesture, i) ==
    CASE gesture = "FORWARD" ->
            [ch1 |-> 1500, ch2 |-> 1500 - FloorOf(i, 450), ch3 |-> 1000, ch4 |-> 1500]
      [] gesture = "BACKWARD" ->
            [ch1 |-> 1500, ch2 |-> 1500 + FloorOf(i, 450), ch3 |-> 1000, ch4 |-> 1500]
      [] gesture = "UP" ->
            [ch1 |-> 1500, ch2 |-> 1500, ch3 |-> 1000 + FloorOf(i, 800), ch4 |-> 1500]
      [] gesture = "HOVER" ->
            [ch1 |-> 1500, ch2 |-> 1500, ch3 |-> 1000, ch4 |-> 1500]

\* C13: on a frame with a hand while the stage is Ready, the emitted command
\* is the base vector (1500, 1500, 1000, 1500) changed in at most one channel:
\* Forward lowers pitch by floor(i*450), Backward raises pitch by floor(i*450),
\* Up raises throttle by floor(i*800), Hover changes nothing, where i is the
\* emitted intensity.
C13_FreshCommand ==
    (lastOp = "frame" /\ frame.hasHand /\ calibration.stage = 3)
        => frame.rcCmd = FreshCommand(frame.gesture, frame.intensity)

\* Ready frames with a hand that raise the throttle, or raise the pitch
C13_Witness ==
    /\ lastOp = "frame" /\ frame.hasHand /\ calibration.stage = 3
    /\ \/ frame.gesture = "UP" /\ frame.rcCmd.ch3 > 1000
       \/ frame.gesture = "BACKWARD" /\ frame.rcCmd.ch2 > 1500

(***************************************************************************)
(* The stored last command.                                                *)
(***************************************************************************)
ReadyHandFrame == lastOp' = "frame" /\ frame'.hasHand /\ calibration.stage = 3

\* C14: a frame with a hand while the stage is Ready emits its fresh command
\* and stores it as the last command; the last command starts as the neutral
\* vector and no other step writes it, so it is always the command of the most
\* recent such frame, or neutral when there has been none.
C14_LastCommandIsLatestFresh ==
    /\ lastValidRC = NeutralRC
    /\ [][/\ ReadyHandFrame =>
               (/\ frame'.rcCmd = MapRC(frame'.gesture, frame'.intensity)
                /\ lastValidRC' = frame'.rcCmd)
          /\ ~ReadyHandFrame => (lastValidRC' = lastValidRC)]_vars

\* the last command of an earlier Ready frame has outlived a later frame that
\* is not one
C14_Witness ==
    /\ lastOp = "frame" /\ ~(frame.hasHand /\ calibration.stage = 3)
    /\ lastValidRC # NeutralRC

(***************************************************************************)
(* The intensity filter.                                                   *)
(***************************************************************************)
\* C15: the smoothed intensity is changed only by a frame with a hand while
\* the stage is Ready; frames without a hand, frames in another stage, and
\* the begin_calibration and sample key events leave it unchanged.
C15_SmoothedOnlyOnReadyHandFrames ==
    [][(smoothedIntensity' # smoothedIntensity) =>
          (lastOp' = "frame" /\ frame'.hasHand /\ calibration.stage = 3)]_vars

\* a nonzero smoothed intensity kept through a frame without a hand, a frame
\* in another stage, or a key event
C15_Witness ==
    /\ smoothedIntensity # ZERO
    /\ \/ lastOp = "frame" /\ ~frame.hasHand
       \/ lastOp = "frame" /\ frame.hasHand /\ calibration.stage = 1
       \/ lastOp = "KeyC"

(***************************************************************************)
(* The deadzone.                                                           *)
(***************************************************************************)
\* i > 0.05 for a number i
AboveDeadzone(i) == i[2] > 0 /\ 20 * i[1] > i[2]

\* C16: on a Ready frame with a hand the emitted intensity is exactly 0 when
\* the smoothed intensity is at most 0.05 and is the smoothed intensity itself,
\* not rescaled, when it is above 0.05; an emitted intensity is never inside
\* (0, 0.05].
C16_Deadzone ==
    /\ (lastOp = "frame" /\ frame.hasHand /\ calibration.stage = 3) =>
          frame.intensity = (IF AboveDeadzone(smoothedIntensity)
                             THEN smoothedIntensity ELSE ZERO)
    /\ frame.intensity = ZERO \/ AboveDeadzone(frame.intensity)

\* a Ready frame whose smoothed intensity, positive and at most 0.05, is
\* emitted as 0
C16_Witness ==
    /\ lastOp = "frame" /\ frame.hasHand /\ calibration.stage = 3
    /\ smoothedIntensity[1] > 0 /\ ~AboveDeadzone(smoothedIntensity)
    /\ frame.intensity = ZERO

(***************************************************************************)
(* Normalisation of the span.                                              *)
(***************************************************************************)
\* a <= b for numbers a and b
Leq(a, b) == a[2] > 0 /\ b[2] > 0 /\ a[1] * b[2] <= b[1] * a[2]

\* spans from below every far bound to above every near bound
AllSpans == 0..(MaxSpan + 1)

\* C17: with near_span > far_span fixed, the normalised intensity
\* clamp((span - far) / (near - far), 0, 1) is non-decreasing in the span and
\* lies in [0, 1] for every span; it is 0 for spans below far_span and 1 for
\* spans above near_span.
C17_NormalizeMonotone ==
    calibration.maxScale > calibration.minScale =>
        \A a, b \in AllSpans :
            /\ Leq(ZERO, Normalize(a, calibration))
            /\ Leq(Normalize(a, calibration), ONE)
            /\ a <= b => Leq(Normalize(a, calibration), Normalize(b, calibration))
            /\ a < calibration.minScale => Normalize(a, calibration) = ZERO
            /\ a > calibration.maxScale => Normalize(a, calibration) = ONE

\* a Ready frame with a span above near_span, with far_span above 0: the
\* span normalises to 1 and the filter, at 0 before, moves by one full step
C17_Witness ==
    /\ lastOp = "frame" /\ frame.hasHand /\ calibration.stage = 3
    /\ calibration.minScale > 0
    /\ seenSpan > calibration.maxScale
    /\ smoothedIntensity = EMA_ALPHA

(***************************************************************************)
(* Malformed landmarks.                                                    *)
(***************************************************************************)
\* what a frame without a hand emits and leaves behind
NoHandOutcome ==
    /\ lastHandTime' = lastHandTime
    /\ smoothedIntensity' = smoothedIntensity
    /\ lastValidRC' = lastValidRC
    /\ frame' = [hasHand |-> FALSE, gesture |-> "NONE", intensity |-> ZERO,
                 rcCmd |-> Failsafe(now' - lastHandTime, lastValidRC),
                 timeSinceHand |-> now' - lastHandTime]

\* C19: a frame whose landmark set is malformed (fewer than 21 points) is
\* processed exactly like a frame without a hand: gesture None, the time the
\* hand was last seen not updated, filter and last command untouched, and the
\* hold-or-neutral command emitted.
C19_MalformedAsNoHand ==
    [][lastOp' = "malformedFrame" => NoHandOutcome]_vars

(***************************************************************************)
(* Emergency stop.                                                         *)
(***************************************************************************)
\* C20: after an emergency stop (Space) the vehicle is disarmed, whatever the
\* connection state, and it becomes armed again only by an arm toggle made
\* while CONNECTED.
C20_EmergencyStopDisarms ==
    [][/\ lastOp' = "Space" => ~armState'
       /\ (~armState /\ armState') =>
              (lastOp' = "toggleArm" /\ connection = "CONNECTED")]_vars

\* Space has disarmed an armed vehicle
C20_Witness ==
    /\ lastOp = "Space" /\ ~armState
    /\ logged = <<"ERROR:emergencyStop">>

(***************************************************************************)
(* Who writes what.                                                        *)
(***************************************************************************)
\* C21: a frame never changes the calibration (stage, far_span, near_span);
\* the begin_calibration and sample key events never change the smoothed
\* intensity, the time the hand was last seen or the last command, and take
\* no span measurement: the remembered span is only read, and the far sample
\* stores exactly that remembered value.
C21_FramesAndKeysSeparate ==
    [][/\ (lastOp' = "frame") => (calibration' = calibration)
       /\ (lastOp' \in {"KeyC", "KeyS"}) =>
              (/\ smoothedIntensity' = smoothedIntensity
               /\ lastHandTime' = lastHandTime
               /\ lastValidRC' = lastValidRC
               /\ lastSampleRef' = lastSampleRef)
       /\ (lastOp' = "KeyS" /\ calibration' # calibration) =>
              (lastSampleRef \in {calibration'.minScale, calibration'.maxScale})]_vars

\* a far sample taken during a re-calibration: it stored the remembered
\* span while a non-neutral last command and a nonzero filter value stayed
C21_Witness ==
    /\ lastOp = "KeyS" /\ calibration.stage = 2
    /\ calibration.minScale = lastSampleRef
    /\ lastValidRC # NeutralRC /\ smoothedIntensity # ZERO

(***************************************************************************)
(* Stage transitions.                                                      *)
(***************************************************************************)
StageStep ==
    (calibration'.stage # calibration.stage) =>
        \/ lastOp' = "KeyC" /\ calibration'.stage = 1
        \/ lastOp' = "KeyS" /\ calibration.stage = 1 /\ calibration'.stage = 2
        \/ lastOp' = "KeyS" /\ calibration.stage = 2 /\ calibration'.stage = 3

\* C22: the stage changes only from any stage to WaitFar by
\* begin_calibration, from WaitFar to WaitNear by a sample, and from WaitNear
\* to Ready by an accepted sample, so Ready is entered only from WaitNear,
\* also when a key event is served before the handler has been re-registered
\* with the new stage.
C22_StageTransitions == [][StageStep]_vars

(***************************************************************************)
(* Frames with a hand outside Ready.                                       *)
(***************************************************************************)
\* C23: a frame with a hand while the stage is Idle, WaitFar or WaitNear
\* emits the last command as it was stored before the frame and leaves it
\* stored, whatever the time since it was computed: the 500 ms failsafe does
\* not apply, and a non-neutral command computed before a re-calibration is
\* emitted during it.
C23_HandFrameOutsideReadyHolds ==
    [][(lastOp' = "frame" /\ frame'.hasHand /\ calibration.stage # 3) =>
          (frame'.rcCmd = lastValidRC /\ lastValidRC' = lastValidRC)]_vars

\* a non-neutral command emitted by a frame with a hand during a
\* re-calibration
C23_Witness ==
    /\ lastOp = "frame" /\ frame.hasHand /\ calibration.stage \in {1, 2}
    /\ frame.rcCmd # NeutralRC

(***************************************************************************)
(* Before the first Ready.                                                 *)
(***************************************************************************)
\* C24: as long as the stage has never been Ready, every emitted command is
\* the neutral vector (1500, 1500, 1000, 1500), whatever frames and key events
\* occur: a command other than neutral is first emitted by a frame processed
\* in Ready, and until then the last command stays neutral.
C24_NeutralUntilReady ==
    /\ frame.rcCmd = NeutralRC /\ lastValidRC = NeutralRC
    /\ [][(frame.rcCmd = NeutralRC /\ lastValidRC = NeutralRC
           /\ calibration.stage # 3)
             => (frame'.rcCmd = NeutralRC /\ lastValidRC' = NeutralRC)]_vars

\* a frame with a hand, a gesture and a span above far_span, emitted
\* neutral while the calibration is still under way
C24_Witness ==
    /\ lastOp = "frame" /\ frame.hasHand /\ frame.gesture = "UP"
    /\ calibration.stage = 2 /\ seenSpan > calibration.minScale
    /\ frame.rcCmd = NeutralRC /\ smoothedIntensity = ZERO
    /\ now >= HOLD_WINDOW_MS

(***************************************************************************)
(* Shape of a command.                                                     *)
(***************************************************************************)
CommandShape(cmd) ==
    /\ cmd.ch1 = 1500 /\ cmd.ch4 = 1500
    /\ cmd.ch2 >= 1050 /\ cmd.ch2 <= 1950
    /\ cmd.ch3 >= 1000 /\ cmd.ch3 <= 1800
    /\ cmd.ch2 = 1500 \/ cmd.ch3 = 1000

\* C25: in every emitted command and in the stored last command roll and yaw
\* are 1500, pitch is within 1050..1950, throttle within 1000..1800, and at
\* most one of pitch and throttle differs from its neutral value; the gesture
\* mapping has that shape for every gesture and every intensity from 0 to 1.
C25_CommandShape ==
    /\ CommandShape(frame.rcCmd)
    /\ CommandShape(lastValidRC)
    /\ \A g \in GestureType, i \in IntensityGrid : CommandShape(MapRC(g, i))

\* a throttle command with neutral pitch, stored and emitted
C25_Witness ==
    /\ lastOp = "frame" /\ frame.rcCmd = lastValidRC
    /\ lastValidRC.ch3 > 1000 /\ lastValidRC.ch2 = 1500

(***************************************************************************)
(* Order of hold and neutral.                                              *)
(***************************************************************************)
\* the last frame had no hand and was past the hold window
FailsafeNeutral == ~frame.hasHand /\ frame.timeSinceHand >= HOLD_WINDOW_MS

\* C26: in a run of frames without a hand, once a frame has emitted the
\* failsafe neutral vector every later frame of the run emits the neutral
\* vector too: the time since the hand was seen does not go down, and the held
\* command comes back only after a frame with a hand.
C26_NeutralStaysNeutral ==
    [][(FailsafeNeutral /\ lastOp' = "frame" /\ ~frame'.hasHand) =>
          (/\ frame'.rcCmd = NeutralRC
           /\ frame'.timeSinceHand >= frame.timeSinceHand)]_vars

\* a frame later than the end of the hold window in a run without a hand:
\* it emits neutral while the stored last command is not neutral
C26_Witness ==
    /\ lastOp = "frame" /\ ~frame.hasHand
    /\ frame.timeSinceHand > HOLD_WINDOW_MS
    /\ frame.rcCmd = NeutralRC /\ lastValidRC # NeutralRC

(***************************************************************************)
(* Connection.                                                             *)
(***************************************************************************)
\* C27: after a user disconnect the connection stays DISCONNECTED until the
\* user requests a connection again: DISCONNECTED is left only by a connect
\* request, and the 1500 ms timer of an earlier request never moves the
\* state to CONNECTED after the disconnect.
C27_DisconnectedUntilRequest ==
    [][(connection = "DISCONNECTED" /\ connection' # "DISCONNECTED") =>
          (lastOp' = "connect" /\ connection' = "CONNECTING")]_vars

(***************************************************************************)
(* Armed only while connected.                                             *)
(***************************************************************************)
ArmedOnlyConnected == armState => connection = "CONNECTED"

\* C28: the vehicle is armed only while connected: an arm toggle is refused
\* unless the connection is CONNECTED, a user disconnect sets armState to
\* false, the watchdog clears armState when the connection is DISCONNECTED,
\* and no state has armState true with a connection other than CONNECTED.
C28_ArmedOnlyWhileConnected ==
    /\ ArmedOnlyConnected
    /\ \A arm \in BOOLEAN : ~Watchdog("DISCONNECTED", arm)
    /\ [][/\ ArmedOnlyConnected'
          /\ (lastOp' = "toggleArm" /\ connection # "CONNECTED") =>
                 (armState' = armState)
          /\ (lastOp' = "disconnect") => ~armState']_vars

\* an arm toggle made while connecting: refused, nothing logged
C28_Witness ==
    /\ lastOp = "toggleArm" /\ connection = "CONNECTING"
    /\ ~armState /\ logged = <<>>

=============================================================================
